---- MODULE Spec2Model ----
(***************************************************************************)
(* Silver -> Gold star-schema build of retail-data-hub:                    *)
(*   src/src/transformation/silver_to_gold.py  (dimension and fact build)  *)
(*   src/src/transformation/scd_handler.py     (SCD Type 2 dim_customer)   *)
(*   src/src/data_generation/generate_pos.py   (shared universe)           *)
(*                                                                         *)
(* Timestamps are integers: a timestamp is day * TicksPerDay + tick, so a  *)
(* calendar day is a block of TicksPerDay instants and midnight is tick 0. *)
(* The calendar is scaled down: the program's dates keep their order and   *)
(* their midnight alignment, not their distance.                           *)
(***************************************************************************)
EXTENDS Integers, Sequences, FiniteSets, TLC

\* ------------------------------------------------------------------ bounds
\* Instants per calendar day (tick 0 is midnight).
TicksPerDay == 2
\* Largest unified-sales input (rows).
MaxSales == 2
\* The number of runs (processes) one after another.
MaxRuns == 2

\* ------------------------------------------------------------- time model
Ts(day, tick) == day * TicksPerDay + tick
DayOf(ts) == ts \div TicksPerDay
\* pandas NaT / None in a datetime column.
NaT == -1
\* Series.dt.normalize(): midnight of the same calendar day.
normalize(ts) == DayOf(ts) * TicksPerDay
\* datetime.strftime("%Y-%m-%d"): the calendar day, the time of day is lost.
strftime_Ymd(ts) == DayOf(ts)
\* pd.to_datetime of a "%Y-%m-%d" string (midnight of that day); None -> NaT.
to_datetime(d) == IF d = NaT THEN NaT ELSE d * TicksPerDay
\* pd.Timedelta(days = n)
Timedelta(n) == n * TicksPerDay
\* Timestamp comparison a <= b: False as soon as one side is NaT.
TsLe(a, b) == a # NaT /\ b # NaT /\ a <= b

\* ------------------------------------------- generate_pos.py: the universe
START_DATE == Ts(1, 0)
SCD_CUTOFF == Ts(3, 0)
END_DATE == Ts(4, 0)

CITIES == [c \in {"Pune", "Jaipur"} |->
             IF c = "Pune" THEN "Maharashtra" ELSE "Rajasthan"]

\* CITIES.get(city, "Unknown")
CitiesGet(city) == IF city \in DOMAIN CITIES THEN CITIES[city] ELSE "Unknown"

STORES == << [store_id |-> "STR-PUN-01", city |-> "Pune", state |-> CITIES["Pune"]],
             [store_id |-> "STR-JAI-01", city |-> "Jaipur", state |-> CITIES["Jaipur"]] >>

CUSTOMERS == << [customer_id |-> "CUST-0001", name |-> "Asha", city |-> "Pune",
                 state |-> CITIES["Pune"]],
                [customer_id |-> "CUST-0002", name |-> "Ravi", city |-> "Jaipur",
                 state |-> CITIES["Jaipur"]] >>

CustomerIds == {CUSTOMERS[i].customer_id : i \in 1..Len(CUSTOMERS)}

\* One change event of SCD_MAP for customer record cust: the old city is the
\* customer's own city, the new city is any other city.
ScdEvents(cust) ==
  {[old_city |-> cust.city, new_city |-> nc,
    old_state |-> CITIES[cust.city], new_state |-> CITIES[nc]] :
       nc \in DOMAIN CITIES \ {cust.city}}

CustomerOf(cid) == CUSTOMERS[CHOOSE i \in 1..Len(CUSTOMERS) : CUSTOMERS[i].customer_id = cid]

\* Every SCD_MAP the sampling can produce: a change event for any subset of
\* the customers.
ScdMaps ==
  UNION {{m \in [S -> UNION {ScdEvents(CustomerOf(c)) : c \in S}] :
             \A c \in S : m[c] \in ScdEvents(CustomerOf(c))} :
         S \in SUBSET CustomerIds}

\* Sentinels.
UNKNOWN == "UNKNOWN"
\* A null customer_id (None / NaN), the value pd.isna() answers True for.
NA == "<NA>"
NoKey == -1

\* pd.Timestamp("2099-12-31"), what get_customer_sk reads a null valid_to as.
FAR_FUTURE == Ts(6, 0)

\* --------------------------------------------------- unified sales (input)
\* The product triples that occur in the sales: two products, and P0001 once
\* more under a second name (the upstream inconsistency).
SaleProducts == << [product_id |-> "P0001", product_name |-> "Bluetooth Speaker",
                category |-> "Electronics"],
               [product_id |-> "P0002", product_name |-> "Cotton T-Shirt",
                category |-> "Clothing"],
               [product_id |-> "P0001", product_name |-> "BT Speaker",
                category |-> "Electronics"] >>

\* Position of a product_id in the ascending order sort_values uses.
PidRank(pid) == IF pid = "P0001" THEN 1 ELSE 2

BaseSale ==
  [transaction_id |-> "INV-000001", transaction_date |-> START_DATE,
   store_id |-> "STR-PUN-01", city |-> "Pune", customer_id |-> "CUST-0001",
   product_id |-> SaleProducts[1].product_id, product_name |-> SaleProducts[1].product_name,
   category |-> SaleProducts[1].category,
   quantity |-> 2, unit_price |-> 5, total_amount |-> 10, channel |-> "POS"]

\* Transaction timestamps: every instant of every day of the global range.
SaleTimestamps ==
  {Ts(d, t) : d \in DayOf(START_DATE)..DayOf(END_DATE), t \in 0..(TicksPerDay - 1)}

\* customer_id values of a sale: known customers, the UNKNOWN sentinel, a
\* null, and an identifier that is in no customer master.
SaleCustomerIds == CustomerIds \cup {UNKNOWN, NA, "CUST-9999"}

\* store_id values of a sale: the physical stores, the web placeholder that
\* merge_sales fills in, and a store that is not in the store universe.
SaleStoreIds ==
  {STORES[i].store_id : i \in 1..Len(STORES)} \cup {"WEB-ONLINE", "STR-XXX-99"}

\* The sale records the input is drawn from (without sale_id): the base sale
\* with its date and customer varied, with its customer varied over the
\* sentinels, with its store varied, with its product varied, and with a
\* total_amount (rounded by the cleaning stage) that is not exactly
\* quantity * unit_price.
SaleRows ==
  {[BaseSale EXCEPT !.transaction_date = t, !.customer_id = c] :
      t \in SaleTimestamps, c \in CustomerIds}
  \cup {[BaseSale EXCEPT !.customer_id = c] : c \in SaleCustomerIds}
  \cup {[BaseSale EXCEPT !.store_id = s,
                         !.channel = IF s = "WEB-ONLINE" THEN "Web" ELSE "POS",
                         !.transaction_id =
                            IF s = "WEB-ONLINE" THEN "ORD-000001" ELSE "INV-000001"] :
          s \in SaleStoreIds}
  \cup {[BaseSale EXCEPT !.product_id = SaleProducts[k].product_id,
                         !.product_name = SaleProducts[k].product_name,
                         !.category = SaleProducts[k].category] : k \in 1..Len(SaleProducts)}
  \cup {[BaseSale EXCEPT !.total_amount = BaseSale.quantity * BaseSale.unit_price + 1]}

\* merge_sales: rows sorted by transaction_date, then sale_id = 1..n.
SortedByDate(rows) ==
  \A i \in 1..(Len(rows) - 1) : rows[i].transaction_date <= rows[i + 1].transaction_date

WithSaleId(rows) ==
  [i \in 1..Len(rows) |-> [sale_id |-> i] @@ rows[i]]

\* Every unified_sales.parquet the cleaning stage can leave: up to MaxSales
\* rows (zero included), sorted by date, numbered.
SalesInputs ==
  {WithSaleId(rows) : rows \in {r \in UNION {[1..n -> SaleRows] : n \in 0..MaxSales} :
                                   SortedByDate(r)}}

\* ------------------------------------------------------------------ state
VARIABLES
  pc,            \* run_silver_to_gold: the step to execute next
  scd_map,       \* SCD_MAP: customer_id -> declared change event
  sales_df,      \* the unified sales loaded from Silver
  dim_date, dim_product, dim_store, dim_customer,
  fact_sales,    \* the tables built by this run
  gold,          \* data/gold: table name -> the rows on disk
  lookup,        \* the last direct call of get_customer_sk and its answer
  silver,        \* data/silver/unified_sales.parquet
  raw,           \* data/raw/pos_sales.csv
  run,           \* the number of the process that is running (or ran last)
  writer         \* Gold table name -> the run that wrote its file last (0: none)

vars == <<pc, scd_map, sales_df, dim_date, dim_product, dim_store, dim_customer,
          fact_sales, gold, lookup, silver, raw, run, writer>>

GoldTables == {"dim_date", "dim_product", "dim_store", "dim_customer", "fact_sales"}

\* ------------------------------------------------------ pandas primitives
Indices(table) == 1..Len(table)

\* Index.is_unique of table.set_index(col)
IsUnique(table, col) ==
  \A i, j \in Indices(table) : table[i][col] = table[j][col] => i = j

\* Series.map(lookup) for one value x, lookup = table.set_index(keycol)[valcol]:
\* the looked-up value, or nothing (NaN) when x is not in the index.
SeriesMap(table, keycol, valcol, x) ==
  IF \E i \in Indices(table) : table[i][keycol] = x
  THEN << table[CHOOSE i \in Indices(table) : table[i][keycol] = x][valcol] >>
  ELSE << >>

\* .fillna(d).astype(int) of one mapped value
fillna(v, d) == IF v = << >> THEN d ELSE v[1]

Min(S) == CHOOSE x \in S : \A y \in S : x <= y
Max(S) == CHOOSE x \in S : \A y \in S : x >= y

\* ------------------------------------------------------------ 1. dim_date
\* pd.date_range(start, end, freq="D"): start, start + 1 day, ... while <= end.
\* The time of day of start is kept on every element.
date_range(start, end) ==
  IF start > end THEN << >>
  ELSE [k \in 1..((end - start) \div TicksPerDay + 1) |-> start + Timedelta(k - 1)]

build_dim_date(min_date, max_date) ==
  LET dates == date_range(min_date, max_date)
  IN  [k \in 1..Len(dates) |-> [date_key |-> k, full_date |-> dates[k]]]

\* --------------------------------------------------------- 2. dim_product
\* Mutant: store_id taken into the column subset of the products.
Triple_WithStore(r) ==
  [product_id |-> r.product_id, product_name |-> r.product_name,
   category |-> r.category, store_id |-> r.store_id]

Triple(r) ==
  [product_id |-> r.product_id, product_name |-> r.product_name, category |-> r.category]

\* sales_df[[...]].drop_duplicates(): the distinct triples
DistinctTriples(sales) == {Triple(sales[i]) : i \in Indices(sales)}

\* Mutant: the sort left out, the distinct triples in the order of their
\* first occurrence.
SortedProducts_InputOrder(sales) ==
  LET T == DistinctTriples(sales)
      First(t) == Min({i \in Indices(sales) : Triple(sales[i]) = t})
  IN  {s \in [1..Cardinality(T) -> T] :
         /\ \A t \in T : \E i \in DOMAIN s : s[i] = t
         /\ \A i \in 1..(Cardinality(T) - 1) : First(s[i]) < First(s[i + 1])}

\* The orders sort_values("product_id") may leave the distinct triples in:
\* ascending product_id, rows with equal product_id in either order.
SortedProducts(sales) ==
  LET T == DistinctTriples(sales)
  IN  {s \in [1..Cardinality(T) -> T] :
         /\ \A t \in T : \E i \in DOMAIN s : s[i] = t
         /\ \A i \in 1..(Cardinality(T) - 1) :
              PidRank(s[i].product_id) <= PidRank(s[i + 1].product_id)}

\* Mutant: the keys numbered from 0 (range(len(products))).
build_dim_product_ZeroBased(sorted) ==
  [k \in 1..Len(sorted) |-> [product_sk |-> k - 1] @@ sorted[k]]

\* products.insert(0, "product_sk", range(1, len(products) + 1))
build_dim_product(sorted) ==
  [k \in 1..Len(sorted) |-> [product_sk |-> k] @@ sorted[k]]

\* ----------------------------------------------------------- 3. dim_store
get_region(state) ==
  CASE state \in {"Maharashtra", "Gujarat", "Rajasthan"} -> "West"
    [] state \in {"Delhi", "Uttar Pradesh"} -> "North"
    [] state \in {"Karnataka", "Tamil Nadu", "Telangana"} -> "South"
    [] state = "West Bengal" -> "East"
    [] state = "Online" -> "Online"
    [] OTHER -> "Other"

\* Mutant: the online row numbered len(rows), the last physical store's key.
build_dim_store_WebKeyDup ==
  LET rows == [i \in 1..Len(STORES) |->
                 [store_sk |-> i, store_id |-> STORES[i].store_id,
                  city |-> STORES[i].city, state |-> STORES[i].state,
                  region |-> get_region(STORES[i].state)]]
  IN  Append(rows, [store_sk |-> Len(rows), store_id |-> "WEB-ONLINE",
                    city |-> "Online", state |-> "Online", region |-> "Online"])

\* Mutant: the online placeholder row left out.
build_dim_store_NoWebRow ==
  [i \in 1..Len(STORES) |->
     [store_sk |-> i, store_id |-> STORES[i].store_id,
      city |-> STORES[i].city, state |-> STORES[i].state,
      region |-> get_region(STORES[i].state)]]

build_dim_store ==
  LET rows == [i \in 1..Len(STORES) |->
                 [store_sk |-> i, store_id |-> STORES[i].store_id,
                  city |-> STORES[i].city, state |-> STORES[i].state,
                  region |-> get_region(STORES[i].state)]]
  IN  Append(rows, [store_sk |-> Len(rows) + 1, store_id |-> "WEB-ONLINE",
                    city |-> "Online", state |-> "Online", region |-> "Online"])

\* ------------------------------------- 4. dim_customer (scd_handler.py)
\* The rows the loop appends for customer record cust, the key counter at sk.
\* valid_from / valid_to are still the "%Y-%m-%d" strings (None as NaT).
\* Mutant: version 1 closed at the cutoff itself (the "- 1 day" forgotten).
Version1Changed_NoMinusDay(cust, scd, sk) ==
  [customer_sk |-> sk, customer_id |-> cust.customer_id, customer_name |-> cust.name,
   city |-> scd.old_city, state |-> scd.old_state,
   valid_from |-> strftime_Ymd(START_DATE),
   valid_to |-> strftime_Ymd(SCD_CUTOFF),
   is_current |-> FALSE, version |-> 1]

Version1Changed(cust, scd, sk) ==
  [customer_sk |-> sk, customer_id |-> cust.customer_id, customer_name |-> cust.name,
   city |-> scd.old_city, state |-> scd.old_state,
   valid_from |-> strftime_Ymd(START_DATE),
   valid_to |-> strftime_Ymd(SCD_CUTOFF - Timedelta(1)),
   is_current |-> FALSE, version |-> 1]

\* Mutant: version 2 written with the before-state city.
Version2Changed_OldCity(cust, scd, sk) ==
  [customer_sk |-> sk, customer_id |-> cust.customer_id, customer_name |-> cust.name,
   city |-> scd.old_city, state |-> scd.old_state,
   valid_from |-> strftime_Ymd(SCD_CUTOFF),
   valid_to |-> NaT,
   is_current |-> TRUE, version |-> 2]

\* Mutant: version 2 written with version 1's key.
Version2Changed_SameKey(cust, scd, sk) ==
  [customer_sk |-> sk - 1, customer_id |-> cust.customer_id, customer_name |-> cust.name,
   city |-> scd.new_city, state |-> scd.new_state,
   valid_from |-> strftime_Ymd(SCD_CUTOFF),
   valid_to |-> NaT,
   is_current |-> TRUE, version |-> 2]

Version2Changed(cust, scd, sk) ==
  [customer_sk |-> sk, customer_id |-> cust.customer_id, customer_name |-> cust.name,
   city |-> scd.new_city, state |-> scd.new_state,
   valid_from |-> strftime_Ymd(SCD_CUTOFF),
   valid_to |-> NaT,
   is_current |-> TRUE, version |-> 2]

\* Mutant: the single version of an unchanged customer not flagged current.
VersionUnchanged_NotCurrent(cust, sk) ==
  [customer_sk |-> sk, customer_id |-> cust.customer_id, customer_name |-> cust.name,
   city |-> cust.city, state |-> CitiesGet(cust.city),
   valid_from |-> strftime_Ymd(START_DATE),
   valid_to |-> NaT,
   is_current |-> FALSE, version |-> 1]

VersionUnchanged(cust, sk) ==
  [customer_sk |-> sk, customer_id |-> cust.customer_id, customer_name |-> cust.name,
   city |-> cust.city, state |-> CitiesGet(cust.city),
   valid_from |-> strftime_Ymd(START_DATE),
   valid_to |-> NaT,
   is_current |-> TRUE, version |-> 1]

\* for cust in CUSTOMERS: ... ; i is the loop position, sk the key counter.
RECURSIVE ScdLoop(_, _, _)
ScdLoop(i, sk, map) ==
  IF i > Len(CUSTOMERS) THEN << >>
  ELSE LET cust == CUSTOMERS[i]
           cid == cust.customer_id
       IN  IF cid \in DOMAIN map
           THEN << Version1Changed(cust, map[cid], sk),
                   Version2Changed(cust, map[cid], sk + 1) >>
                \o ScdLoop(i + 1, sk + 2, map)
           ELSE << VersionUnchanged(cust, sk) >> \o ScdLoop(i + 1, sk + 1, map)

\* df = DataFrame(rows); valid_from / valid_to through pd.to_datetime
build_dim_customer_scd2(map) ==
  LET rows == ScdLoop(1, 1, map)
  IN  [i \in 1..Len(rows) |->
         [rows[i] EXCEPT !.valid_from = to_datetime(rows[i].valid_from),
                         !.valid_to = to_datetime(rows[i].valid_to)]]

\* Mutant: the customer filter forgotten, every row matches.
Matches_All(dim, customer_id) == dim

\* dim_customer[dim_customer["customer_id"] == customer_id]
Matches(dim, customer_id) == SelectSeq(dim, LAMBDA r : r.customer_id = customer_id)

\* Mutant: valid_from taken as an exclusive bound.
RowCovers_StrictFrom(row, txn_ts) ==
  LET vf == row.valid_from
      vt == IF row.valid_to = NaT THEN FAR_FUTURE ELSE row.valid_to
  IN  TsLe(vf, txn_ts) /\ vf # txn_ts /\ TsLe(txn_ts, vt)

\* Mutant: the scan tests only the upper end of the interval.
RowCovers_NoLowerBound(row, txn_ts) ==
  LET vt == IF row.valid_to = NaT THEN FAR_FUTURE ELSE row.valid_to
  IN  TsLe(txn_ts, vt)

\* The test of the scan for one row: vf <= txn_ts <= vt, a null vt read as
\* 2099-12-31.
RowCovers(row, txn_ts) ==
  LET vf == row.valid_from
      vt == IF row.valid_to = NaT THEN FAR_FUTURE ELSE row.valid_to
  IN  TsLe(vf, txn_ts) /\ TsLe(txn_ts, vt)

\* Mutant: no fallback after the scan, the unknown sentinel instead.
get_customer_sk_NoFallback(dim, customer_id, txn_date) ==
  IF customer_id = UNKNOWN \/ customer_id = NA THEN NoKey
  ELSE LET matches == Matches(dim, customer_id)
       IN  IF matches = << >> THEN NoKey
           ELSE LET hits == {i \in Indices(matches) : RowCovers(matches[i], txn_date)}
                IN  IF hits # {} THEN matches[Min(hits)].customer_sk ELSE NoKey

\* Mutant: the fallback skips the current version and takes the first row.
get_customer_sk_FallbackFirst(dim, customer_id, txn_date) ==
  IF customer_id = UNKNOWN \/ customer_id = NA THEN NoKey
  ELSE LET matches == Matches(dim, customer_id)
       IN  IF matches = << >> THEN NoKey
           ELSE LET hits == {i \in Indices(matches) : RowCovers(matches[i], txn_date)}
                IN  IF hits # {} THEN matches[Min(hits)].customer_sk
                    ELSE matches[1].customer_sk

get_customer_sk(dim, customer_id, txn_date) ==
  IF customer_id = UNKNOWN \/ customer_id = NA THEN NoKey
  ELSE LET matches == Matches(dim, customer_id)
       IN  IF matches = << >> THEN NoKey
           ELSE LET txn_ts == txn_date
                    hits == {i \in Indices(matches) : RowCovers(matches[i], txn_ts)}
                    current == SelectSeq(matches, LAMBDA r : r.is_current = TRUE)
                IN  IF hits # {} THEN matches[Min(hits)].customer_sk
                    ELSE IF current # << >> THEN current[1].customer_sk
                    ELSE matches[1].customer_sk

\* ---------------------------------------------------------- 5. fact_sales
\* Series.map with a lookup Series whose index has duplicates raises
\* (InvalidIndexError); the three map calls of build_fact_sales.
FactLookupsRaise(dd, dp, ds) ==
  \/ ~IsUnique(dd, "full_date")
  \/ ~IsUnique(dp, "product_id")
  \/ ~IsUnique(ds, "store_id")

\* Mutant: unmatched dates filled with 0 instead of -1.
DateKeyOf_FillZero(dd, txn_date) ==
  fillna(SeriesMap(dd, "full_date", "date_key", normalize(txn_date)), 0)

DateKeyOf(dd, txn_date) ==
  fillna(SeriesMap(dd, "full_date", "date_key", normalize(txn_date)), NoKey)

ProductSkOf(dp, product_id) ==
  fillna(SeriesMap(dp, "product_id", "product_sk", product_id), NoKey)

\* Mutant: an unmatched store falls back to the first store of the dimension.
StoreSkOf_FirstStore(ds, store_id) ==
  fillna(SeriesMap(ds, "store_id", "store_sk", store_id), ds[1].store_sk)

StoreSkOf(ds, store_id) ==
  fillna(SeriesMap(ds, "store_id", "store_sk", store_id), NoKey)

\* Mutant: total_amount recomputed from quantity and unit_price.
FactRow_RecomputesTotal(r, dd, dp, ds, dc) ==
  [sale_id |-> r.sale_id, transaction_id |-> r.transaction_id,
   transaction_date |-> r.transaction_date,
   date_key |-> DateKeyOf(dd, r.transaction_date),
   product_sk |-> ProductSkOf(dp, r.product_id),
   store_sk |-> StoreSkOf(ds, r.store_id),
   customer_sk |-> get_customer_sk(dc, r.customer_id, r.transaction_date),
   quantity |-> r.quantity, unit_price |-> r.unit_price,
   total_amount |-> r.quantity * r.unit_price, channel |-> r.channel]

FactRow(r, dd, dp, ds, dc) ==
  [sale_id |-> r.sale_id, transaction_id |-> r.transaction_id,
   transaction_date |-> r.transaction_date,
   date_key |-> DateKeyOf(dd, r.transaction_date),
   product_sk |-> ProductSkOf(dp, r.product_id),
   store_sk |-> StoreSkOf(ds, r.store_id),
   customer_sk |-> get_customer_sk(dc, r.customer_id, r.transaction_date),
   quantity |-> r.quantity, unit_price |-> r.unit_price,
   total_amount |-> r.total_amount, channel |-> r.channel]

\* The table build_fact_sales returns when it does not raise: one row per
\* row of sales, in the same order.
build_fact_sales(sales, dd, dp, ds, dc) ==
  [i \in Indices(sales) |-> FactRow(sales[i], dd, dp, ds, dc)]

\* ------------------------------------------------- run_silver_to_gold
\* A file of the Gold directory: not there, there with the whole table df, or
\* there but cut short by a write that raised part-way.
Absent == [written |-> FALSE, complete |-> FALSE, rows |-> << >>]
Saved(df) == [written |-> TRUE, complete |-> TRUE, rows |-> df]
Truncated == [written |-> TRUE, complete |-> FALSE, rows |-> << >>]
NoLookup == [called |-> FALSE, customer_id |-> NA, txn_date |-> NaT, result |-> NoKey]
\* data/silver/unified_sales.parquet: not there, or there with the table s.
NoFile == [exists |-> FALSE, rows |-> << >>]
SilverFile(s) == [exists |-> TRUE, rows |-> s]
SilverFiles == {NoFile} \cup {SilverFile(s) : s \in SalesInputs}
NoWriter == [t \in GoldTables |-> 0]

\* The state a first run starts in: the process is about to load its
\* modules, the input snapshots are in place, data/gold is empty.
InitWith(files) ==
  /\ pc = "import"
  /\ scd_map \in ScdMaps
  /\ sales_df = << >>
  /\ dim_date = << >>
  /\ dim_product = << >>
  /\ dim_store = << >>
  /\ dim_customer = << >>
  /\ fact_sales = << >>
  /\ gold = [t \in GoldTables |-> Absent]
  /\ lookup = NoLookup
  /\ silver \in files
  /\ raw = "snapshot"
  /\ run = 1
  /\ writer = NoWriter

Init == InitWith(SilverFiles)

\* Loading silver_to_gold.py imports scd_handler and generate_pos; the
\* module body of generate_pos generates the POS sales and writes them to
\* data/raw/pos_sales.csv.
ImportModules ==
  /\ pc = "import"
  /\ raw' = "rewritten"
  /\ pc' = "load"
  /\ UNCHANGED <<scd_map, sales_df, dim_date, dim_product, dim_store, dim_customer,
                 fact_sales, gold, lookup, silver, run, writer>>

\* load_silver("unified_sales.parquet"): raises when the file is missing.
LoadMissing ==
  /\ pc = "load"
  /\ ~silver.exists
  /\ pc' = "failed"
  /\ UNCHANGED <<scd_map, sales_df, dim_date, dim_product, dim_store, dim_customer,
                 fact_sales, gold, lookup, silver, raw, run, writer>>

LoadSilver ==
  /\ pc = "load"
  /\ silver.exists
  /\ sales_df' = silver.rows
  /\ pc' = "build_dim_date"
  /\ UNCHANGED <<scd_map, dim_date, dim_product, dim_store, dim_customer,
                 fact_sales, gold, lookup, silver, raw, run, writer>>

\* Mutant: an empty sales table gives an empty dim_date and the run goes on.
BuildDimDate_EmptyGoesOn ==
  /\ pc = "build_dim_date"
  /\ dim_date' = IF sales_df = << >> THEN << >>
                 ELSE LET dates == {sales_df[i].transaction_date : i \in Indices(sales_df)}
                      IN  build_dim_date(Min(dates), Max(dates))
  /\ pc' = "build_dim_product"
  /\ UNCHANGED <<scd_map, sales_df, dim_product, dim_store, dim_customer,
                 fact_sales, gold, lookup, silver, raw, run, writer>>

\* min / max of an empty column are NaT and pd.date_range raises on NaT.
BuildDimDate ==
  /\ pc = "build_dim_date"
  /\ IF sales_df = << >>
     THEN pc' = "failed" /\ UNCHANGED dim_date
     ELSE LET dates == {sales_df[i].transaction_date : i \in Indices(sales_df)}
          IN  /\ dim_date' = build_dim_date(Min(dates), Max(dates))
              /\ pc' = "build_dim_product"
  /\ UNCHANGED <<scd_map, sales_df, dim_product, dim_store, dim_customer,
                 fact_sales, gold, lookup, silver, raw, run, writer>>

BuildDimProduct ==
  /\ pc = "build_dim_product"
  /\ \E sorted \in SortedProducts(sales_df) : dim_product' = build_dim_product(sorted)
  /\ pc' = "build_dim_store"
  /\ UNCHANGED <<scd_map, sales_df, dim_date, dim_store, dim_customer,
                 fact_sales, gold, lookup, silver, raw, run, writer>>

BuildDimStore ==
  /\ pc = "build_dim_store"
  /\ dim_store' = build_dim_store
  /\ pc' = "build_dim_customer"
  /\ UNCHANGED <<scd_map, sales_df, dim_date, dim_product, dim_customer,
                 fact_sales, gold, lookup, silver, raw, run, writer>>

BuildDimCustomer ==
  /\ pc = "build_dim_customer"
  /\ dim_customer' = build_dim_customer_scd2(scd_map)
  /\ pc' = "build_fact_sales"
  /\ UNCHANGED <<scd_map, sales_df, dim_date, dim_product, dim_store,
                 fact_sales, gold, lookup, silver, raw, run, writer>>

\* Mutant: the key columns are added to the caller's sales table (the copy
\* forgotten).
BuildFactSales_InPlace ==
  /\ pc = "build_fact_sales"
  /\ IF FactLookupsRaise(dim_date, dim_product, dim_store)
     THEN pc' = "failed" /\ UNCHANGED <<fact_sales, sales_df>>
     ELSE /\ fact_sales' = build_fact_sales(sales_df, dim_date, dim_product,
                                            dim_store, dim_customer)
          /\ sales_df' = fact_sales'
          /\ pc' = "save_dim_date"
  /\ UNCHANGED <<scd_map, dim_date, dim_product, dim_store, dim_customer,
                 gold, lookup, silver, raw, run, writer>>

BuildFactSales ==
  /\ pc = "build_fact_sales"
  /\ IF FactLookupsRaise(dim_date, dim_product, dim_store)
     THEN pc' = "failed" /\ UNCHANGED fact_sales
     ELSE /\ fact_sales' = build_fact_sales(sales_df, dim_date, dim_product,
                                            dim_store, dim_customer)
          /\ pc' = "save_dim_date"
  /\ UNCHANGED <<scd_map, sales_df, dim_date, dim_product, dim_store, dim_customer,
                 gold, lookup, silver, raw, run, writer>>

\* Mutant: the rows are appended to the file instead of replacing it.
save_gold_Appends(name, df, next) ==
  /\ pc = "save_" \o name
  /\ gold' = [gold EXCEPT ![name] = Saved(gold[name].rows \o df)]
  /\ writer' = [writer EXCEPT ![name] = run]
  /\ pc' = next
  /\ UNCHANGED <<scd_map, sales_df, dim_date, dim_product, dim_store, dim_customer,
                 fact_sales, lookup, silver, raw, run>>

\* save_gold(df, filename): the file is overwritten with df.
save_gold(name, df, next) ==
  /\ pc = "save_" \o name
  /\ gold' = [gold EXCEPT ![name] = Saved(df)]
  /\ writer' = [writer EXCEPT ![name] = run]
  /\ pc' = next
  /\ UNCHANGED <<scd_map, sales_df, dim_date, dim_product, dim_store, dim_customer,
                 fact_sales, lookup, silver, raw, run>>

SaveDimDate == save_gold("dim_date", dim_date, "save_dim_product")
SaveDimProduct == save_gold("dim_product", dim_product, "save_dim_store")
\* Mutant: after dim_store the run goes straight to persisting fact_sales.
SaveDimStore_SkipsCustomer == save_gold("dim_store", dim_store, "save_fact_sales")
SaveDimStore == save_gold("dim_store", dim_store, "save_dim_customer")
\* Mutant: the dim_customer file is not written, the run goes on.
SaveDimCustomer_NotWritten ==
  /\ pc = "save_dim_customer"
  /\ pc' = "save_fact_sales"
  /\ UNCHANGED <<scd_map, sales_df, dim_date, dim_product, dim_store, dim_customer,
                 fact_sales, gold, lookup, silver, raw, run, writer>>

SaveDimCustomer == save_gold("dim_customer", dim_customer, "save_fact_sales")
SaveFactSales == save_gold("fact_sales", fact_sales, "done")

\* Mutant: a failed write undoes the tables this run has already written.
SaveRaises_Rollback ==
  /\ pc \in {"save_" \o t : t \in GoldTables}
  /\ gold' = [t \in GoldTables |-> Absent]
  /\ writer' = NoWriter
  /\ pc' = "failed"
  /\ UNCHANGED <<scd_map, sales_df, dim_date, dim_product, dim_store, dim_customer,
                 fact_sales, lookup, silver, raw, run>>

\* df.to_parquet raises and the error leaves run_silver_to_gold. The write is
\* in place: it raises either before the file is opened, leaving it as it
\* was, or after (a write failure part-way), leaving it cut short. The
\* tables written before stay, the later save_gold calls are not reached.
SaveRaises ==
  /\ \E t \in GoldTables :
       /\ pc = "save_" \o t
       /\ \/ UNCHANGED <<gold, writer>>
          \/ /\ gold' = [gold EXCEPT ![t] = Truncated]
             /\ writer' = [writer EXCEPT ![t] = run]
  /\ pc' = "failed"
  /\ UNCHANGED <<scd_map, sales_df, dim_date, dim_product, dim_store, dim_customer,
                 fact_sales, lookup, silver, raw, run>>

Next ==
  \/ ImportModules
  \/ LoadMissing
  \/ LoadSilver
  \/ BuildDimDate
  \/ BuildDimProduct
  \/ BuildDimStore
  \/ BuildDimCustomer
  \/ BuildFactSales
  \/ SaveDimDate
  \/ SaveDimProduct
  \/ SaveDimStore
  \/ SaveDimCustomer
  \/ SaveFactSales
  \/ SaveRaises

Spec == Init /\ [][Next]_vars

\* ------------------------------------------- several runs, one after another
\* Each run is a process of its own: it loads the modules again and starts
\* with no table in memory. The input snapshots stay as they are from run to
\* run; the sales file is one of those with at most one row.
RunSilverFiles == {NoFile} \cup {SilverFile(s) : s \in {x \in SalesInputs : Len(x) <= 1}}

InitRuns == InitWith(RunSilverFiles)

\* python silver_to_gold.py once more, after the run before has ended.
StartRun ==
  /\ pc \in {"done", "failed"}
  /\ run < MaxRuns
  /\ run' = run + 1
  /\ pc' = "import"
  /\ sales_df' = << >>
  /\ dim_date' = << >>
  /\ dim_product' = << >>
  /\ dim_store' = << >>
  /\ dim_customer' = << >>
  /\ fact_sales' = << >>
  /\ UNCHANGED <<scd_map, gold, lookup, silver, raw, writer>>

\* python scd_handler.py between two pipeline runs: the module load (which
\* writes the raw POS file), build_dim_customer_scd2, save_dim_customer.
\* The write of dim_customer.parquet returns or raises like any other.
ScdHandlerMain ==
  /\ pc \in {"done", "failed"}
  /\ run < MaxRuns
  /\ run' = run + 1
  /\ raw' = "rewritten"
  /\ sales_df' = << >>
  /\ dim_date' = << >>
  /\ dim_product' = << >>
  /\ dim_store' = << >>
  /\ fact_sales' = << >>
  /\ dim_customer' = build_dim_customer_scd2(scd_map)
  /\ \/ /\ gold' = [gold EXCEPT !["dim_customer"] = Saved(dim_customer')]
        /\ writer' = [writer EXCEPT !["dim_customer"] = run']
        /\ pc' = "done"
     \/ /\ UNCHANGED <<gold, writer>>
        /\ pc' = "failed"
     \/ /\ gold' = [gold EXCEPT !["dim_customer"] = Truncated]
        /\ writer' = [writer EXCEPT !["dim_customer"] = run']
        /\ pc' = "failed"
  /\ UNCHANGED <<scd_map, lookup, silver>>

NextRuns ==
  \/ Next
  \/ StartRun
  \/ ScdHandlerMain

SpecRuns == InitRuns /\ [][NextRuns]_vars

\* ------------------------------ the customer keys resolved in any row order
\* fact.apply(lambda row: get_customer_sk(dim_customer, ...), axis=1) taken
\* apart into its calls: one call per row, the rows in any order, a row
\* possibly more than once. fact_sales holds the keys resolved so far.
Unresolved(sales) ==
  [i \in Indices(sales) |->
     [sale_id |-> sales[i].sale_id, customer_sk |-> NoKey, resolved |-> FALSE]]

InitResolve ==
  /\ pc = "resolve"
  /\ scd_map \in ScdMaps
  /\ sales_df \in SalesInputs \ {<< >>}
  /\ dim_customer = build_dim_customer_scd2(scd_map)
  /\ dim_date = << >>
  /\ dim_product = << >>
  /\ dim_store = << >>
  /\ fact_sales = Unresolved(sales_df)
  /\ gold = [t \in GoldTables |-> Absent]
  /\ lookup = NoLookup
  /\ silver = SilverFile(sales_df)
  /\ raw = "rewritten"
  /\ run = 1
  /\ writer = NoWriter

\* Mutant: the key of the last call reused when the customer is the same.
ResolveRow_CachedByCustomer ==
  /\ pc = "resolve"
  /\ \E i \in Indices(sales_df) :
       LET r == sales_df[i]
           k == IF lookup.called /\ lookup.customer_id = r.customer_id
                THEN lookup.result
                ELSE get_customer_sk(dim_customer, r.customer_id, r.transaction_date)
       IN  /\ fact_sales' = [fact_sales EXCEPT ![i] =
                 [sale_id |-> r.sale_id, customer_sk |-> k, resolved |-> TRUE]]
           /\ lookup' = [called |-> TRUE, customer_id |-> r.customer_id,
                         txn_date |-> r.transaction_date, result |-> k]
  /\ UNCHANGED <<pc, scd_map, sales_df, dim_date, dim_product, dim_store,
                 dim_customer, gold, silver, raw, run, writer>>

ResolveRow ==
  /\ pc = "resolve"
  /\ \E i \in Indices(sales_df) :
       LET r == sales_df[i]
           k == get_customer_sk(dim_customer, r.customer_id, r.transaction_date)
       IN  /\ fact_sales' = [fact_sales EXCEPT ![i] =
                 [sale_id |-> r.sale_id, customer_sk |-> k, resolved |-> TRUE]]
           /\ lookup' = [called |-> TRUE, customer_id |-> r.customer_id,
                         txn_date |-> r.transaction_date, result |-> k]
  /\ UNCHANGED <<pc, scd_map, sales_df, dim_date, dim_product, dim_store,
                 dim_customer, gold, silver, raw, run, writer>>

NextResolve == ResolveRow

SpecResolve == InitResolve /\ [][NextResolve]_vars

\* ------------------------------------ get_customer_sk called on its own
\* Event dates of a direct call: NaT, and every instant from the day before
\* the global start to the day after 2099-12-31.
LookupTimestamps ==
  {NaT} \cup {Ts(d, t) : d \in (DayOf(START_DATE) - 1)..(DayOf(FAR_FUTURE) + 1),
                         t \in 0..(TicksPerDay - 1)}

\* The customer table of a direct call is the one build_dim_customer_scd2
\* returns: get_customer_sk has no other caller and no other table.
InitLookup ==
  /\ pc = "lookup"
  /\ scd_map \in ScdMaps
  /\ dim_customer = build_dim_customer_scd2(scd_map)
  /\ sales_df = << >>
  /\ dim_date = << >>
  /\ dim_product = << >>
  /\ dim_store = << >>
  /\ fact_sales = << >>
  /\ gold = [t \in GoldTables |-> Absent]
  /\ lookup = NoLookup
  /\ silver = NoFile
  /\ raw = "rewritten"
  /\ run = 1
  /\ writer = NoWriter

CallGetCustomerSk ==
  /\ pc = "lookup"
  /\ \E cid \in SaleCustomerIds, ts \in LookupTimestamps :
       lookup' = [called |-> TRUE, customer_id |-> cid, txn_date |-> ts,
                  result |-> get_customer_sk(dim_customer, cid, ts)]
  /\ pc' = "returned"
  /\ UNCHANGED <<scd_map, sales_df, dim_date, dim_product, dim_store,
                 dim_customer, fact_sales, gold, silver, raw, run, writer>>

NextLookup == CallGetCustomerSk

SpecLookup == InitLookup /\ [][NextLookup]_vars

\* ======================================================================
\* Properties
\* ======================================================================
\* build_dim_customer_scd2 has returned in this run.
DimCustomerBuilt == dim_customer # << >>

\* The rows of dim_customer that carry customer_id cid, as a set.
VersionsOf(cid) == {dim_customer[i] : i \in {j \in Indices(dim_customer) :
                                                dim_customer[j].customer_id = cid}}

\* An instant / a row's closed interval, a null valid_to read as unbounded.
InInterval(row, ts) ==
  /\ row.valid_from <= ts
  /\ (row.valid_to = NaT \/ ts <= row.valid_to)

\* The instants of the global date range, and its calendar dates (midnights).
RangeInstants == START_DATE..(END_DATE + TicksPerDay - 1)
RangeDates == {Ts(d, 0) : d \in DayOf(START_DATE)..DayOf(END_DATE)}

\* C3 (as stated): in the built dim_customer, for every customer, every
\* instant of the global date range lies in exactly one version's interval
\* [valid_from, valid_to] (null valid_to unbounded): no gap, no overlap.
C3_EveryInstantInOneVersion ==
  DimCustomerBuilt =>
    \A cid \in CustomerIds : \A ts \in RangeInstants :
      Cardinality({r \in VersionsOf(cid) : InInterval(r, ts)}) = 1

\* C3 (amended): in the built dim_customer, for every customer, every
\* calendar date of the global date range lies in exactly one version's
\* interval: the intervals partition the dates, valid_to being the last day
\* and not the last instant of a version.
C3_EveryDateInOneVersion ==
  DimCustomerBuilt =>
    \A cid \in CustomerIds : \A d \in RangeDates :
      Cardinality({r \in VersionsOf(cid) : InInterval(r, d)}) = 1

\* C3 witness: the table is built and holds a customer with two versions.
C3_Witness ==
  /\ DimCustomerBuilt
  /\ \E cid \in CustomerIds : Cardinality(VersionsOf(cid)) = 2

\* C4: in dim_customer every customer has exactly one version with
\* is_current = true; it is the customer's highest version and the only one
\* whose valid_to is null.
C4_OneCurrentVersion ==
  DimCustomerBuilt =>
    \A cid \in CustomerIds :
      LET V == VersionsOf(cid)
          cur == {r \in V : r.is_current}
      IN  /\ Cardinality(cur) = 1
          /\ \A r \in cur : \A o \in V : o.version <= r.version
          /\ {r \in V : r.valid_to = NaT} = cur

\* C4 witness: a built table in which some customer has a version that is
\* not current beside the current one.
C4_Witness ==
  /\ DimCustomerBuilt
  /\ \E cid \in CustomerIds : \E r, o \in VersionsOf(cid) : r.is_current /\ ~o.is_current

\* C5: a customer with a declared change has exactly two rows, version 1
\* (before-state, global start .. cutoff - 1 day, not current) and version 2
\* (after-state, cutoff .. null, current); a customer without one has exactly
\* one row (version 1, own city, global start .. null, current).
C5_RowsPerCustomer ==
  DimCustomerBuilt =>
    \A k \in 1..Len(CUSTOMERS) :
      LET cust == CUSTOMERS[k]
          rows == Matches(dim_customer, cust.customer_id)
          Shape(r) == [version |-> r.version, city |-> r.city, state |-> r.state,
                       valid_from |-> r.valid_from, valid_to |-> r.valid_to,
                       is_current |-> r.is_current]
      IN  IF cust.customer_id \in DOMAIN scd_map
          THEN LET scd == scd_map[cust.customer_id]
               IN  /\ Len(rows) = 2
                   /\ \E i, j \in {1, 2} :
                        /\ i # j
                        /\ Shape(rows[i]) =
                             [version |-> 1, city |-> scd.old_city, state |-> scd.old_state,
                              valid_from |-> START_DATE,
                              valid_to |-> SCD_CUTOFF - TicksPerDay, is_current |-> FALSE]
                        /\ Shape(rows[j]) =
                             [version |-> 2, city |-> scd.new_city, state |-> scd.new_state,
                              valid_from |-> SCD_CUTOFF,
                              valid_to |-> NaT, is_current |-> TRUE]
          ELSE /\ Len(rows) = 1
               /\ Shape(rows[1]) =
                    [version |-> 1, city |-> cust.city, state |-> cust.state,
                     valid_from |-> START_DATE, valid_to |-> NaT, is_current |-> TRUE]

\* C5 witness: a built table for a customer master with one customer that
\* has a declared change and one that has none.
C5_Witness ==
  /\ DimCustomerBuilt
  /\ DOMAIN scd_map # {}
  /\ DOMAIN scd_map # CustomerIds

\* ---------------------------------------------------------- fact claims
\* build_fact_sales was called in this run (it returned or raised).
FactBuilderCalled == DimCustomerBuilt /\ pc # "build_fact_sales"
\* build_fact_sales returned a table in this run.
FactBuilt == fact_sales # << >>

KeysOf(table, col) == {table[i][col] : i \in Indices(table)}

\* The key of the dim_customer row of customer cid with version number v.
VersionKey(cid, v) ==
  (CHOOSE r \in VersionsOf(cid) : r.version = v).customer_sk

\* C1: for every sale of a customer with a declared change and a timestamp
\* inside the global date range (any time of day), the customer_sk on its
\* fact row is version 1's key when the sale's calendar date is before the
\* cutoff date and version 2's key when it is on or after it.
C1_CustomerKeyByCalendarDate ==
  FactBuilt =>
    \A i \in Indices(fact_sales) :
      LET s == sales_df[i]
      IN  (s.customer_id \in DOMAIN scd_map /\ s.transaction_date \in RangeInstants) =>
            fact_sales[i].customer_sk =
              VersionKey(s.customer_id,
                         IF DayOf(s.transaction_date) < DayOf(SCD_CUTOFF) THEN 1 ELSE 2)

\* C6: on every fact row each of date_key, product_sk, store_sk, customer_sk
\* is -1 or a key present in the dimension table the builder was given.
C6_ForeignKeysResolveOrSentinel ==
  FactBuilt =>
    \A i \in Indices(fact_sales) :
      /\ fact_sales[i].date_key \in {-1} \cup KeysOf(dim_date, "date_key")
      /\ fact_sales[i].product_sk \in {-1} \cup KeysOf(dim_product, "product_sk")
      /\ fact_sales[i].store_sk \in {-1} \cup KeysOf(dim_store, "store_sk")
      /\ fact_sales[i].customer_sk \in {-1} \cup KeysOf(dim_customer, "customer_sk")

\* C6 witness: a fact table with a row whose customer does not resolve (-1)
\* and a row whose four keys are all keys of their dimensions.
C6_Witness ==
  /\ FactBuilt
  /\ \E i, j \in Indices(fact_sales) :
       /\ fact_sales[i].customer_sk = -1
       /\ fact_sales[j].date_key \in KeysOf(dim_date, "date_key")
       /\ fact_sales[j].product_sk \in KeysOf(dim_product, "product_sk")
       /\ fact_sales[j].store_sk \in KeysOf(dim_store, "store_sk")
       /\ fact_sales[j].customer_sk \in KeysOf(dim_customer, "customer_sk")

\* C7: once build_fact_sales has been called, fact_sales has exactly one row
\* per input sale: as many rows as sales_df, each sale_id on exactly one row,
\* whatever the input.
C7_OneFactRowPerSale ==
  FactBuilderCalled =>
    /\ Len(fact_sales) = Len(sales_df)
    /\ \A i \in Indices(sales_df) :
         Cardinality({k \in Indices(fact_sales) :
                        fact_sales[k].sale_id = sales_df[i].sale_id}) = 1

\* C10: in the fact table build_fact_sales returns, a sale whose store_id is
\* not in dim_store has its row, with store_sk = -1, and every other sale has
\* its row with the store_sk of its own store.
C10_UnknownStoreGetsSentinel ==
  FactBuilt =>
    /\ Len(fact_sales) = Len(sales_df)
    /\ \A i \in Indices(sales_df) :
         /\ fact_sales[i].sale_id = sales_df[i].sale_id
         /\ IF sales_df[i].store_id \in KeysOf(dim_store, "store_id")
            THEN \E k \in Indices(dim_store) :
                   /\ dim_store[k].store_id = sales_df[i].store_id
                   /\ fact_sales[i].store_sk = dim_store[k].store_sk
            ELSE fact_sales[i].store_sk = -1

\* C10 witness: a fact table with the row of a sale of a store outside the
\* store universe next to the row of a sale of a known store.
C10_Witness ==
  /\ FactBuilt
  /\ \E i, j \in Indices(sales_df) :
       /\ sales_df[i].store_id = "STR-XXX-99"
       /\ fact_sales[i].store_sk = -1
       /\ sales_df[j].store_id \in KeysOf(dim_store, "store_id")
       /\ fact_sales[j].store_sk >= 1

\* -------------------------------------------------------- lookup claims
\* A calendar date: a timestamp at midnight.
IsDate(ts) == ts # NaT /\ ts = normalize(ts)

\* C2 (as stated): for a customer with a declared change, every event date
\* before the cutoff resolves to version 1's key, the cutoff date and every
\* later date to version 2's key, so the key changes once, at the cutoff.
C2_KeyChangesOnceAtCutoff ==
  (lookup.called /\ lookup.customer_id \in DOMAIN scd_map /\ IsDate(lookup.txn_date)) =>
    lookup.result =
      VersionKey(lookup.customer_id, IF lookup.txn_date < SCD_CUTOFF THEN 1 ELSE 2)

\* C2 (amended): for a customer with a declared change, every event date
\* from the global start date up to the day before the cutoff resolves to
\* version 1's key, the cutoff date and every later date to version 2's key:
\* from the global start on, the key changes once, at the cutoff.
C2_KeyChangesOnceAtCutoffFromStart ==
  (/\ lookup.called
   /\ lookup.customer_id \in DOMAIN scd_map
   /\ IsDate(lookup.txn_date)
   /\ lookup.txn_date >= START_DATE) =>
    lookup.result =
      VersionKey(lookup.customer_id, IF lookup.txn_date < SCD_CUTOFF THEN 1 ELSE 2)

\* C2 witness: the cutoff date itself was looked up for a customer with a
\* declared change and resolved to version 2.
C2_Witness ==
  /\ lookup.called
  /\ lookup.customer_id \in DOMAIN scd_map
  /\ lookup.txn_date = SCD_CUTOFF
  /\ lookup.result = VersionKey(lookup.customer_id, 2)

\* C8: get_customer_sk answers -1, for every event date, when customer_id
\* is "UNKNOWN", null, or has no row in dim_customer.
C8_UnknownCustomerGetsSentinel ==
  (/\ lookup.called
   /\ \/ lookup.customer_id \in {"UNKNOWN", NA}
      \/ lookup.customer_id \notin KeysOf(dim_customer, "customer_id")) =>
    lookup.result = -1

\* C8 witness: an identifier with no row in dim_customer was looked up, at a
\* date inside some other customer's version, and answered -1.
C8_Witness ==
  /\ lookup.called
  /\ lookup.customer_id \notin KeysOf(dim_customer, "customer_id") \cup {"UNKNOWN", NA}
  /\ \E i \in Indices(dim_customer) : InInterval(dim_customer[i], lookup.txn_date)
  /\ lookup.result = -1

\* C9: for a customer_id with a row in dim_customer and any event date, the
\* answer is never -1 and is the key of a row of that customer: the first
\* version whose interval contains the date (null valid_to unbounded), else
\* the first version flagged is_current, else the customer's first row.
C9_KnownCustomerAlwaysResolves ==
  (lookup.called /\ lookup.customer_id \in KeysOf(dim_customer, "customer_id")) =>
    LET I == {i \in Indices(dim_customer) :
                dim_customer[i].customer_id = lookup.customer_id}
        holds == {i \in I : lookup.txn_date # NaT
                            /\ InInterval(dim_customer[i], lookup.txn_date)}
        cur == {i \in I : dim_customer[i].is_current}
        pick == IF holds # {} THEN Min(holds)
                ELSE IF cur # {} THEN Min(cur) ELSE Min(I)
    IN  /\ lookup.result # -1
        /\ lookup.result = dim_customer[pick].customer_sk

\* C9 witness: a known customer was looked up at an instant that no version
\* of that customer contains, and the answer is its current version's key.
C9_Witness ==
  /\ lookup.called
  /\ lookup.customer_id \in KeysOf(dim_customer, "customer_id")
  /\ lookup.txn_date # NaT
  /\ \A r \in VersionsOf(lookup.customer_id) : ~InInterval(r, lookup.txn_date)
  /\ \E r \in VersionsOf(lookup.customer_id) :
       r.is_current /\ lookup.result = r.customer_sk

\* ------------------------------------------------------ dim_date claims
\* build_dim_date returned a table in this run.
DimDateBuilt == dim_date # << >>
\* min_date / max_date as run_silver_to_gold computes them.
SaleDates == {sales_df[i].transaction_date : i \in Indices(sales_df)}

\* C11: the table build_dim_date returns for min_date <= max_date (either may
\* carry a time of day) has exactly one row per calendar day from the day of
\* min_date to the day of max_date inclusive, no day twice, date_key dense
\* 1..N ascending by date, with N = (max_date - min_date).days + 1.
C11_OneRowPerCalendarDay ==
  DimDateBuilt =>
    LET lo == Min(SaleDates)
        hi == Max(SaleDates)
        N == (hi - lo) \div TicksPerDay + 1
    IN  /\ {DayOf(dim_date[k].full_date) : k \in Indices(dim_date)} = DayOf(lo)..DayOf(hi)
        /\ \A k, l \in Indices(dim_date) :
             k # l => DayOf(dim_date[k].full_date) # DayOf(dim_date[l].full_date)
        /\ Len(dim_date) = N
        /\ \A k \in Indices(dim_date) : dim_date[k].date_key = k
        /\ \A k \in 1..(Len(dim_date) - 1) :
             dim_date[k].full_date < dim_date[k + 1].full_date

\* C12: on every fact row of a pipeline run the date_key is the key of the
\* dim_date row whose full_date is the sale's calendar date, and is never -1,
\* whatever the times of day of the sales.
C12_DateKeyAlwaysResolves ==
  FactBuilt =>
    \A i \in Indices(fact_sales) :
      /\ fact_sales[i].date_key # -1
      /\ \E k \in Indices(dim_date) :
           /\ dim_date[k].full_date = normalize(sales_df[i].transaction_date)
           /\ dim_date[k].date_key = fact_sales[i].date_key

\* --------------------------------------------------- dim_product claims
\* build_dim_product returned a table in this run (sales_df is not empty
\* when the run gets that far).
DimProductBuilt == dim_product # << >>

\* C13: dim_product has one row per distinct (product_id, product_name,
\* category) triple of the sales and no other row, the rows are in ascending
\* product_id order, and product_sk is 1..N in that order.
C13_OneRowPerDistinctTriple ==
  DimProductBuilt =>
    LET T == {Triple(sales_df[i]) : i \in Indices(sales_df)}
    IN  /\ {Triple(dim_product[k]) : k \in Indices(dim_product)} = T
        /\ Len(dim_product) = Cardinality(T)
        /\ \A k \in 1..(Len(dim_product) - 1) :
             PidRank(dim_product[k].product_id) <= PidRank(dim_product[k + 1].product_id)
        /\ \A k \in Indices(dim_product) : dim_product[k].product_sk = k

\* C13 witness: two sales of different products, loaded with the higher
\* product_id first, gave a two-row dim_product.
C13_Witness ==
  /\ DimProductBuilt
  /\ Len(sales_df) = 2
  /\ PidRank(sales_df[1].product_id) > PidRank(sales_df[2].product_id)
  /\ Len(dim_product) = 2

\* C14: in dim_product no two rows share a product_id, for every sales input.
C14_ProductIdUnique ==
  DimProductBuilt =>
    \A k, l \in Indices(dim_product) :
      k # l => dim_product[k].product_id # dim_product[l].product_id

\* C14 (amended): two rows of dim_product share a product_id only when the
\* sales carry that product_id under two different (product_name, category)
\* combinations, one row for each; so product_id is unique whenever every
\* product_id of the input has a single combination.
C14_ProductIdUniquePerCombination ==
  DimProductBuilt =>
    \A k, l \in Indices(dim_product) :
      (k # l /\ dim_product[k].product_id = dim_product[l].product_id) =>
        /\ <<dim_product[k].product_name, dim_product[k].category>>
             # <<dim_product[l].product_name, dim_product[l].category>>
        /\ \E i, j \in Indices(sales_df) :
             /\ sales_df[i].product_id = dim_product[k].product_id
             /\ sales_df[i].product_name = dim_product[k].product_name
             /\ sales_df[i].category = dim_product[k].category
             /\ sales_df[j].product_id = dim_product[l].product_id
             /\ sales_df[j].product_name = dim_product[l].product_name
             /\ sales_df[j].category = dim_product[l].category

\* C14 witness: two sales of one product with one name and category, at
\* different stores, gave a single dim_product row.
C14_Witness ==
  /\ DimProductBuilt
  /\ Len(sales_df) = 2
  /\ sales_df[1].product_id = sales_df[2].product_id
  /\ sales_df[1].product_name = sales_df[2].product_name
  /\ sales_df[1].store_id # sales_df[2].store_id
  /\ Len(dim_product) = 1

\* C15: when the sales carry one product_id under two (product_name,
\* category) combinations the run does not fail on it: dim_product has one
\* row per combination, build_fact_sales returns one fact row per sale, and
\* the product_sk of each sale is the key of a dim_product row with the
\* sale's product_id.
C15_InconsistentProductPassesThrough ==
  (/\ FactBuilderCalled
   /\ \E i, j \in Indices(sales_df) :
        /\ sales_df[i].product_id = sales_df[j].product_id
        /\ <<sales_df[i].product_name, sales_df[i].category>>
             # <<sales_df[j].product_name, sales_df[j].category>>) =>
    /\ \A i \in Indices(sales_df) :
         Cardinality({k \in Indices(dim_product) :
                        /\ dim_product[k].product_id = sales_df[i].product_id
                        /\ dim_product[k].product_name = sales_df[i].product_name
                        /\ dim_product[k].category = sales_df[i].category}) = 1
    /\ FactBuilt
    /\ Len(fact_sales) = Len(sales_df)
    /\ \A i \in Indices(fact_sales) :
         \E k \in Indices(dim_product) :
           /\ dim_product[k].product_id = sales_df[i].product_id
           /\ dim_product[k].product_sk = fact_sales[i].product_sk

\* ----------------------------------------------------- dim_store claims
\* build_dim_store returned a table in this run.
DimStoreBuilt == dim_store # << >>

\* The region of each state, as the specification tabulates it.
Regions ==
  [s \in {"Maharashtra", "Gujarat", "Rajasthan", "Delhi", "Uttar Pradesh",
          "Karnataka", "Tamil Nadu", "Telangana", "West Bengal"} |->
     CASE s \in {"Maharashtra", "Gujarat", "Rajasthan"} -> "West"
       [] s \in {"Delhi", "Uttar Pradesh"} -> "North"
       [] s \in {"Karnataka", "Tamil Nadu", "Telangana"} -> "South"
       [] OTHER -> "East"]

\* C16: dim_store has one row per physical store plus one: the i-th store of
\* the universe has store_sk = i, its own id, city and state, and the region
\* of its state ("Other" for a state without one); exactly one more row,
\* "WEB-ONLINE" with city, state and region "Online", has store_sk = n + 1;
\* store_sk is unique.
C16_StoresPlusWebRow ==
  DimStoreBuilt =>
    LET n == Len(STORES)
    IN  /\ Len(dim_store) = n + 1
        /\ \A i \in 1..n :
             /\ dim_store[i].store_sk = i
             /\ dim_store[i].store_id = STORES[i].store_id
             /\ dim_store[i].city = STORES[i].city
             /\ dim_store[i].state = STORES[i].state
             /\ dim_store[i].region =
                  IF STORES[i].state \in DOMAIN Regions
                  THEN Regions[STORES[i].state] ELSE "Other"
        /\ {k \in Indices(dim_store) : dim_store[k].store_id = "WEB-ONLINE"} = {n + 1}
        /\ dim_store[n + 1] = [store_sk |-> n + 1, store_id |-> "WEB-ONLINE",
                               city |-> "Online", state |-> "Online",
                               region |-> "Online"]
        /\ \A k, l \in Indices(dim_store) :
             k # l => dim_store[k].store_sk # dim_store[l].store_sk

\* C16 witness: the store dimension was built from two physical stores of
\* different cities and ends with the online row.
C16_Witness ==
  /\ DimStoreBuilt
  /\ Len(dim_store) = 3
  /\ dim_store[1].city # dim_store[2].city
  /\ dim_store[3].store_id = "WEB-ONLINE"

\* C17: in the fact table of a run every web-channel sale carries the
\* store_sk of the "WEB-ONLINE" row of dim_store, never the key of a physical
\* store and never -1.
C17_WebSaleResolvesToWebStore ==
  FactBuilt =>
    \A i \in Indices(fact_sales) :
      sales_df[i].channel = "Web" =>
        /\ fact_sales[i].store_sk # -1
        /\ \E k \in Indices(dim_store) :
             /\ dim_store[k].store_id = "WEB-ONLINE"
             /\ dim_store[k].store_sk = fact_sales[i].store_sk
        /\ \A k \in Indices(dim_store) :
             dim_store[k].store_id # "WEB-ONLINE" =>
               dim_store[k].store_sk # fact_sales[i].store_sk

\* C17 witness: a fact table with a web sale on the online row's key next to
\* a point-of-sale sale on a physical store's key.
C17_Witness ==
  /\ FactBuilt
  /\ \E i, j \in Indices(fact_sales) :
       /\ sales_df[i].channel = "Web"
       /\ fact_sales[i].store_sk = Len(STORES) + 1
       /\ sales_df[j].channel = "POS"
       /\ fact_sales[j].store_sk \in 1..Len(STORES)

\* ------------------------------------------------------ pipeline claims
\* The steps of run_silver_to_gold in the order the specification gives.
StepOrder ==
  << "import", "load", "build_dim_date", "build_dim_product", "build_dim_store",
     "build_dim_customer", "build_fact_sales", "save_dim_date", "save_dim_product",
     "save_dim_store", "save_dim_customer", "save_fact_sales", "done" >>
\* The Gold tables in the order they are persisted.
SaveOrder == << "dim_date", "dim_product", "dim_store", "dim_customer", "fact_sales" >>
\* The table of this run that goes to the Gold file name.
TableOf(name) ==
  CASE name = "dim_date" -> dim_date
    [] name = "dim_product" -> dim_product
    [] name = "dim_store" -> dim_store
    [] name = "dim_customer" -> dim_customer
    [] name = "fact_sales" -> fact_sales

\* C18: every step of a run leads to the next step of the one fixed order
\* (the module load, then in run_silver_to_gold load, dim_date, dim_product,
\* dim_store, dim_customer, fact_sales, then persist dim_date, dim_product,
\* dim_store, dim_customer, fact_sales) or ends the run failed; the fact builder starts only with all
\* four dimensions built, and fact_sales is persisted after the four others.
C18_FixedLinearOrder ==
  [][/\ \E k \in 1..(Len(StepOrder) - 1) :
          /\ pc = StepOrder[k]
          /\ pc' \in {StepOrder[k + 1], "failed"}
     /\ pc' = "build_fact_sales" =>
          (dim_date' # << >> /\ dim_product' # << >>
             /\ dim_store' # << >> /\ dim_customer' # << >>)
     /\ gold'["fact_sales"].written =>
          \A t \in GoldTables \ {"fact_sales"} : gold'[t] = Saved(TableOf(t)')]_vars

\* C18 witness: a run went through every step and all five tables are
\* on disk.
C18_Witness ==
  /\ pc = "done"
  /\ \A t \in GoldTables : gold[t] = Saved(TableOf(t))
  /\ Len(fact_sales) = 2

C20_NoInputNoGoldTable ==
  sales_df = << >> =>
    /\ pc \in {"import", "load", "build_dim_date", "failed"}
    /\ \A t \in GoldTables : gold[t] = Absent

\* C20 witness: a run without sales (file missing or empty) ended failed
\* with nothing on disk.
C20_Witness ==
  /\ pc = "failed"
  /\ sales_df = << >>
  /\ \A t \in GoldTables : gold[t] = Absent

CustIndex(cid) == CHOOSE i \in 1..Len(CUSTOMERS) : CUSTOMERS[i].customer_id = cid

\* C22: the customer_sk values of dim_customer are unique and are 1..N with
\* N = customers + customers with a declared change; they rise in customer
\* iteration order, and version 2 of a changed customer has version 1's key
\* plus one.
C22_CustomerKeysDense ==
  DimCustomerBuilt =>
    LET N == Len(CUSTOMERS) + Cardinality(DOMAIN scd_map)
    IN  /\ Len(dim_customer) = N
        /\ KeysOf(dim_customer, "customer_sk") = 1..N
        /\ \A k, l \in Indices(dim_customer) :
             k # l => dim_customer[k].customer_sk # dim_customer[l].customer_sk
        /\ \A k, l \in Indices(dim_customer) :
             CustIndex(dim_customer[k].customer_id) < CustIndex(dim_customer[l].customer_id)
               => dim_customer[k].customer_sk < dim_customer[l].customer_sk
        /\ \A cid \in DOMAIN scd_map : VersionKey(cid, 2) = VersionKey(cid, 1) + 1

\* C22 witness: the first customer of the master has a declared change and
\* the second has none: keys 1 and 2, then 3.
C22_Witness ==
  /\ DimCustomerBuilt
  /\ DOMAIN scd_map = {CUSTOMERS[1].customer_id}
  /\ VersionKey(CUSTOMERS[1].customer_id, 2) = 2
  /\ \E r \in VersionsOf(CUSTOMERS[2].customer_id) : r.customer_sk = 3

\* ------------------------------------------- open-ended version, early dates
\* The open-ended version (null valid_to) of customer cid.
OpenVersion(cid) == CHOOSE r \in VersionsOf(cid) : r.valid_to = NaT

\* C23: for a known customer every event instant on or after the valid_from
\* of the open-ended version, dates after 2099-12-31 included, resolves to
\* that version's key.
C23_OpenVersionHasNoEnd ==
  (/\ lookup.called
   /\ lookup.customer_id \in CustomerIds
   /\ lookup.txn_date # NaT
   /\ lookup.txn_date >= OpenVersion(lookup.customer_id).valid_from) =>
    lookup.result = OpenVersion(lookup.customer_id).customer_sk

\* C23 witness: a customer with a declared change looked up after 2099-12-31
\* got version 2's key.
C23_Witness ==
  /\ lookup.called
  /\ lookup.customer_id \in DOMAIN scd_map
  /\ lookup.txn_date > FAR_FUTURE
  /\ lookup.result = VersionKey(lookup.customer_id, 2)

\* C30: for a known customer and an event date before the global start date
\* get_customer_sk returns the key of the is_current version: version 2 for a
\* customer with a declared change, not version 1.
C30_EarlyDateGetsCurrentVersion ==
  (/\ lookup.called
   /\ lookup.customer_id \in CustomerIds
   /\ lookup.txn_date # NaT
   /\ lookup.txn_date < START_DATE) =>
    /\ \E r \in VersionsOf(lookup.customer_id) :
         r.is_current /\ r.customer_sk = lookup.result
    /\ lookup.customer_id \in DOMAIN scd_map =>
         /\ lookup.result = VersionKey(lookup.customer_id, 2)
         /\ lookup.result # VersionKey(lookup.customer_id, 1)

\* C30 witness: a customer with a declared change looked up on the day before
\* the global start date got version 2's key.
C30_Witness ==
  /\ lookup.called
  /\ lookup.customer_id \in DOMAIN scd_map
  /\ lookup.txn_date = START_DATE - Timedelta(1)
  /\ lookup.result = VersionKey(lookup.customer_id, 2)

\* ------------------------------------------------- fact builder frame claims
\* C24: every fact row carries the quantity, unit_price, total_amount,
\* channel, transaction_id and transaction_date of its sale unchanged;
\* total_amount is not recomputed from quantity and unit_price.
C24_MeasuresCarriedUnchanged ==
  FactBuilt =>
    \A i \in Indices(fact_sales) :
      /\ fact_sales[i].quantity = sales_df[i].quantity
      /\ fact_sales[i].unit_price = sales_df[i].unit_price
      /\ fact_sales[i].total_amount = sales_df[i].total_amount
      /\ fact_sales[i].channel = sales_df[i].channel
      /\ fact_sales[i].transaction_id = sales_df[i].transaction_id
      /\ fact_sales[i].transaction_date = sales_df[i].transaction_date

\* C24 witness: a fact row of a sale whose total_amount is not quantity times
\* unit_price, carrying that total, next to a web sale's row.
C24_Witness ==
  /\ FactBuilt
  /\ \E i, j \in Indices(fact_sales) :
       /\ sales_df[i].total_amount # sales_df[i].quantity * sales_df[i].unit_price
       /\ fact_sales[i].total_amount = sales_df[i].total_amount
       /\ fact_sales[j].channel = "Web"

\* C25: the step that builds the fact table (build_fact_sales with its calls
\* of get_customer_sk) leaves the sales table and the four dimension tables
\* it is given exactly as they were, whether it returns or raises.
C25_FactBuilderLeavesInputs ==
  [][pc = "build_fact_sales" =>
       UNCHANGED <<sales_df, dim_date, dim_product, dim_store, dim_customer>>]_vars

\* C25 witness: the fact table has just been built from two sales, one of a
\* customer with a declared change, and the sales table is still the table
\* that was loaded.
C25_Witness ==
  /\ pc = "save_dim_date"
  /\ FactBuilt
  /\ Len(sales_df) = 2
  /\ sales_df = silver.rows
  /\ \E i \in Indices(sales_df) : sales_df[i].customer_id \in DOMAIN scd_map

RowOrders(seq) ==
  {[i \in DOMAIN seq |-> seq[f[i]]] :
     f \in {g \in [DOMAIN seq -> DOMAIN seq] : \A i, j \in DOMAIN seq : i # j => g[i] # g[j]}}

\* Every product_id of the sales comes with one product_name and category.
ProductsConsistent(sales) ==
  \A i, j \in Indices(sales) :
    sales[i].product_id = sales[j].product_id => Triple(sales[i]) = Triple(sales[j])

\* C27: build_dim_product gives for every permutation of the sale records
\* the dim_product it gave for the records as loaded: the same rows with the
\* same product_sk on each triple.
C27_ProductKeysIndependentOfRowOrder ==
  DimProductBuilt =>
    \A p \in RowOrders(sales_df) :
      \A sorted \in SortedProducts(p) : build_dim_product(sorted) = dim_product

\* C27 (amended): the same, for sales in which every product_id comes with
\* one product_name and category.
C27_ProductKeysIndependentOfRowOrderWhenConsistent ==
  (DimProductBuilt /\ ProductsConsistent(sales_df)) =>
    \A p \in RowOrders(sales_df) :
      \A sorted \in SortedProducts(p) : build_dim_product(sorted) = dim_product

\* C27 witness: two sales, the one with the higher product_id loaded first;
\* its product has key 2.
C27_Witness ==
  /\ DimProductBuilt
  /\ Len(sales_df) = 2
  /\ ProductsConsistent(sales_df)
  /\ \E k \in Indices(dim_product) :
       /\ dim_product[k].product_id = sales_df[1].product_id
       /\ dim_product[k].product_sk = 2

\* ------------------------------------------------- what a run writes, and when
\* C28: no step of a run, the loading of its modules included, writes a file
\* of the raw layer or of the Silver layer.
C28_InputLayersUnwritten ==
  [][UNCHANGED <<raw, silver>>]_vars

\* C29: over runs one after another, any persist step failing, every
\* dimension file on disk was written by the run that wrote the fact_sales
\* file on disk or by a later one.
C29_FactNeverNewerThanDimension ==
  \A d \in GoldTables \ {"fact_sales"} : writer[d] >= writer["fact_sales"]

\* C29 witness: the second run failed persisting dim_product: dim_date is of
\* run 2, the other dimensions and fact_sales are still those of run 1.
C29_Witness ==
  /\ run = 2
  /\ pc = "failed"
  /\ writer["dim_date"] = 2
  /\ writer["dim_store"] = 1
  /\ writer["dim_customer"] = 1
  /\ writer["fact_sales"] = 1
  /\ gold["fact_sales"].complete

====
